---- MODULE Spec2Model ----
(***************************************************************************)
(* Version-chain engine of py-objectstorage (backend/s3_routes.py,        *)
(* backend/storage.py, backend/models.py).                                 *)
(*                                                                         *)
(* State: the bucket table, the objectversion table (rows), the blob       *)
(* store under STORAGE_ROOT (blobs), the wall clock read by               *)
(* datetime.utcnow (now), the supply of uuid4 version ids (nextVid), the   *)
(* last request with its response (last) and the requests in flight        *)
(* (procs, used by the request-parallel specification only).               *)
(*                                                                         *)
(* A row is identified by its version_id: uuid4 values are unique, no      *)
(* handler ever changes version_id, and the primary key id is read by no   *)
(* handler.  The ui_rollback handler's bearer-token dependency is taken    *)
(* as passed.                                                              *)
(***************************************************************************)
EXTENDS Integers, Sequences, FiniteSets, TLC

VARIABLES buckets, rows, blobs, now, nextVid, last, procs

vars == <<buckets, rows, blobs, now, nextVid, last, procs>>

(* ------------------------------ bounds -------------------------------- *)

\* number of uuid4 values drawn in one run (one per Put and per delete marker)
MaxVid == 3
\* number of times the wall clock shows a later time than at its last reading
MaxTime == 2

\* clock readings the model tells apart within one second
TicksPerSecond == 2

BucketNames == {"b1", "b2"}
Keys == {"k1"}
\* the keys and the body of the requests that run on several keys
ManyKeys == {"k1", "k2"}
Chains == {<<"b1", "k1">>, <<"b1", "k2">>, <<"b2", "k1">>}
OneBody == {<<65>>}
\* the keys in the order of ORDER BY key
KeyOrder == <<"k1", "k2">>
\* the buckets that requests served in parallel name: one chain, on which
\* every request in flight meets every other
ParBuckets == {"b1"}
\* number of uuid4 values drawn in one run of requests served in parallel
MaxParVid == 2
\* requests in flight at one time
MaxProcs == 2
Procs == 1..MaxProcs
\* request bodies, as byte sequences
Bodies == {<<65>>, <<66, 67>>}
ContentTypes == {"application/octet-stream"}
\* version ids a client can name: every id the run can draw, and one more
\* that is never drawn
VersionIds == 1..(MaxVid + 1)
\* of these, the ids drawn so far and one id not drawn yet (the ids not drawn
\* yet are all alike to every handler)
Nameable(next) == {v \in VersionIds : v <= next}

(* ------------------------------ values -------------------------------- *)

\* versionId: Optional[str] = None, and the absent x-amz-version-id header
NoVid == 0
\* storage_path: Optional[str] = None
None == <<>>
\* etag: str = ""
NoEtag == <<>>
NoBody == <<>>

\* hashlib.md5(...).hexdigest(): a digest, taken as collision-free
Md5Hex(data) == <<"md5", data>>

\* calculate_etag: the digest of the whole body between double quotes
calculate_etag(body) == <<"\"", Md5Hex(body), "\"">>

\* os.path.join(bucket, key_hash, filename) of save_file
StoragePath(bucket, key, version_id) == <<bucket, Md5Hex(key), version_id>>

(* ------------------------------ blob store ---------------------------- *)

\* save_file copying from a file object left at its end: an empty file
SaveFileAtEndOfBody(B, bucket, key, version_id, body) ==
    LET path == StoragePath(bucket, key, version_id)
    IN  [p \in (DOMAIN B) \cup {path} |-> IF p = path THEN NoBody ELSE B[p]]

\* save_file: open(file_path, "wb") and copy the body; an existing file at
\* the path is overwritten
save_file(B, bucket, key, version_id, body) ==
    LET path == StoragePath(bucket, key, version_id)
    IN  [p \in (DOMAIN B) \cup {path} |-> IF p = path THEN body ELSE B[p]]

\* get_file_content: None when no file is at the path, else the open file
get_file_content(B, storage_path) ==
    IF storage_path \in DOMAIN B
    THEN [found |-> TRUE, data |-> B[storage_path]]
    ELSE [found |-> FALSE, data |-> NoBody]

\* delete_physical_file leaving the file where it is
DeletePhysicalFileKeepsFile(B, storage_path) ==
    B

\* delete_physical_file: os.remove when the file exists, silent otherwise
delete_physical_file(B, storage_path) ==
    [p \in (DOMAIN B) \ {storage_path} |-> B[p]]

RECURSIVE DeleteFiles(_, _)
\* delete_physical_file on each path of a sequence, in order
DeleteFiles(B, paths) ==
    IF paths = <<>> THEN B
    ELSE DeleteFiles(delete_physical_file(B, Head(paths)), Tail(paths))

(* ------------------------------ rows ---------------------------------- *)

\* ObjectVersion(...) as put_object builds it; last_modified is the default
\* factory datetime.utcnow, read when the object is constructed
NewObject(bucket, key, version_id, body, content_type, t) ==
    [bucket_name |-> bucket, key |-> key, version_id |-> version_id,
     is_latest |-> TRUE, is_delete_marker |-> FALSE,
     size |-> Len(body), etag |-> calculate_etag(body),
     last_modified |-> t, content_type |-> content_type,
     storage_path |-> StoragePath(bucket, key, version_id)]

\* ObjectVersion(...) as delete_object builds its delete marker: every field
\* it does not give takes the default of the model class
NewDeleteMarker(bucket, key, version_id, t) ==
    [bucket_name |-> bucket, key |-> key, version_id |-> version_id,
     is_latest |-> TRUE, is_delete_marker |-> TRUE,
     size |-> 0, etag |-> NoEtag,
     last_modified |-> t, content_type |-> "application/octet-stream",
     storage_path |-> None]

\* ChainOf without the condition on bucket_name
ChainOfKey(R, bucket, key) ==
    {r \in R : r.key = key}

\* select(ObjectVersion).where(bucket_name == .., key == ..)
ChainOf(R, bucket, key) ==
    {r \in R : r.bucket_name = bucket /\ r.key = key}

\* .order_by(last_modified.desc()).all(): every order of the rows the
\* database may answer with, rows of equal last_modified in either order
DescOrders(S) ==
    {s \in [1..Cardinality(S) -> S] :
        /\ \A i, j \in DOMAIN s : i # j => s[i] # s[j]
        /\ \A i, j \in DOMAIN s : i < j => s[i].last_modified >= s[j].last_modified}

\* .where(is_latest == True).first(): no row, or any one of the rows found,
\* given as a set of at most one version_id
OldLatestChoices(R, bucket, key) ==
    LET cand == {r \in ChainOf(R, bucket, key) : r.is_latest}
    IN  IF cand = {} THEN {{}} ELSE {{r.version_id} : r \in cand}

(* ------------------------------ session ------------------------------- *)

\* What a session holds at commit: rows whose is_latest it set to True or
\* to False (only where that changed the loaded value), rows it deleted,
\* rows it added.
Plan(setLatest, clearLatest, del, ins) ==
    [setLatest |-> setLatest, clearLatest |-> clearLatest, del |-> del, ins |-> ins]

\* session.commit(): the flush updates by primary key, and an UPDATE that
\* matches no row fails the commit (StaleDataError) with nothing applied; a
\* DELETE that matches no row only warns.
CommitStale(R, plan) ==
    \E v \in plan.setLatest \cup plan.clearLatest :
        ~\E r \in R : r.version_id = v

Commit(R, plan) ==
    IF CommitStale(R, plan) THEN R
    ELSE {[r EXCEPT !.is_latest =
                IF r.version_id \in plan.setLatest THEN TRUE
                ELSE IF r.version_id \in plan.clearLatest THEN FALSE
                ELSE @] : r \in {x \in R : x.version_id \notin plan.del}}
         \cup plan.ins

(* ------------------------------ responses ----------------------------- *)

\* A request with its response: versionId and req_body are what the client
\* sent; status and detail, the x-amz-version-id and ETag headers and the
\* streamed body are what it got back.
Resp(op, bucket, key, versionId, req_body, status, detail, version_id, etag, body) ==
    [op |-> op, bucket |-> bucket, key |-> key, versionId |-> versionId,
     req_body |-> req_body, status |-> status, detail |-> detail,
     version_id |-> version_id, etag |-> etag, body |-> body]

\* The NoSuchKey response of a Get
NoSuchKey(bucket, key, versionId) ==
    Resp("get_object", bucket, key, versionId, NoBody,
         404, "NoSuchKey", NoVid, NoEtag, NoBody)

\* The row of a non-empty set of rows sharing one version_id
TheRow(S) == CHOOSE r \in S : TRUE

NoRequest == Resp("none", "", "", NoVid, NoBody, 0, "", NoVid, NoEtag, NoBody)

(* ------------------------------ handlers ------------------------------ *)

\* One way a request can end: the tables and the blob store it leaves, its
\* response, and whether it drew a uuid4.
Outcome(R, B, resp, drew) == [rows |-> R, blobs |-> B, resp |-> resp, drew |-> drew]

\* PutPlan without the demotion of the old latest row
PutPlanNoDemotion(old, new_obj) ==
    Plan({}, {}, {}, {new_obj})

\* put_object from the demotion of the old latest row to the commit
PutPlan(old, new_obj) ==
    Plan({}, {r.version_id : r \in old}, {}, {new_obj})

\* put_object(bucket_name, key, request) with a body and a content-type
\* header, run from its first to its last line; version_id is the uuid4 it
\* draws and t the clock it reads.
put_object(Bk, R, B, t, version_id, bucket, key, body, content_type) ==
    IF bucket \notin Bk
    THEN {Outcome(R, B, Resp("put_object", bucket, key, NoVid, body,
                             404, "NoSuchBucket", NoVid, NoEtag, NoBody), FALSE)}
    ELSE LET B1 == save_file(B, bucket, key, version_id, body)
             new_obj == NewObject(bucket, key, version_id, body, content_type, t)
         IN  {Outcome(Commit(R, PutPlan({r \in R : r.version_id \in old}, new_obj)), B1,
                      Resp("put_object", bucket, key, NoVid, body,
                           200, "", version_id, calculate_etag(body), NoBody), TRUE)
                : old \in OldLatestChoices(R, bucket, key)}

\* GetResponse without the check for a delete marker
GetResponseNoMarkerCheck(B, bucket, key, versionId, obj) ==
    LET file_stream == get_file_content(B, obj.storage_path)
    IN  IF ~file_stream.found
        THEN Resp("get_object", bucket, key, versionId, NoBody,
                  500, "InternalError: File missing on disk", NoVid, NoEtag, NoBody)
        ELSE Resp("get_object", bucket, key, versionId, NoBody,
                  200, "", obj.version_id, obj.etag, file_stream.data)

\* The response of get_object for the row its query found
GetResponse(B, bucket, key, versionId, obj) ==
    IF obj.is_delete_marker
    THEN Resp("get_object", bucket, key, versionId, NoBody,
              404, "NoSuchKey", NoVid, NoEtag, NoBody)
    ELSE LET file_stream == get_file_content(B, obj.storage_path)
         IN  IF ~file_stream.found
             THEN Resp("get_object", bucket, key, versionId, NoBody,
                       500, "InternalError: File missing on disk", NoVid, NoEtag, NoBody)
             ELSE Resp("get_object", bucket, key, versionId, NoBody,
                       200, "", obj.version_id, obj.etag, file_stream.data)

\* The rows get_object's query can answer with .first()
GetCandidates(R, bucket, key, versionId) ==
    IF versionId # NoVid
    THEN {r \in ChainOf(R, bucket, key) : r.version_id = versionId}
    ELSE {r \in ChainOf(R, bucket, key) : r.is_latest}

\* get_object(bucket_name, key, versionId): the responses it can give
get_object(R, B, bucket, key, versionId) ==
    LET cand == GetCandidates(R, bucket, key, versionId)
    IN  IF cand = {}
        THEN {Resp("get_object", bucket, key, versionId, NoBody,
                   404, "NoSuchKey", NoVid, NoEtag, NoBody)}
        ELSE {GetResponse(B, bucket, key, versionId, obj) : obj \in cand}

\* get_iso_timestamp: strftime("%Y-%m-%dT%H:%M:%S.000Z"), the time cut to
\* whole seconds
get_iso_timestamp(dt) == <<dt \div TicksPerSecond, "000Z">>

\* The <Contents> element list_objects writes for a row
Contents(obj) ==
    [tag |-> "Contents", Key |-> obj.key,
     LastModified |-> get_iso_timestamp(obj.last_modified),
     ETag |-> obj.etag, Size |-> obj.size]

\* The <Version> or <DeleteMarker> element list_objects writes for a row
VersionElement(ver) ==
    IF ver.is_delete_marker
    THEN [tag |-> "DeleteMarker", Key |-> ver.key, VersionId |-> ver.version_id,
          IsLatest |-> ver.is_latest,
          LastModified |-> get_iso_timestamp(ver.last_modified)]
    ELSE [tag |-> "Version", Key |-> ver.key, VersionId |-> ver.version_id,
          IsLatest |-> ver.is_latest,
          LastModified |-> get_iso_timestamp(ver.last_modified),
          ETag |-> ver.etag, Size |-> ver.size]

\* .all() of a query without ORDER BY: the rows in any order
AllOrders(S) ==
    {s \in [1..Cardinality(S) -> S] : \A i, j \in DOMAIN s : i # j => s[i] # s[j]}

KeyRank(key) == CHOOSE i \in DOMAIN KeyOrder : KeyOrder[i] = key

\* .order_by(key, last_modified.desc()).all()
VersionOrders(S) ==
    {s \in AllOrders(S) :
        \A i, j \in DOMAIN s :
            i < j => \/ KeyRank(s[i].key) < KeyRank(s[j].key)
                     \/ /\ s[i].key = s[j].key
                        /\ s[i].last_modified >= s[j].last_modified}

\* ListObjectsQuery without the condition is_delete_marker == False
ListObjectsQueryWithMarkers(R, bucket_name) ==
    {r \in R : r.bucket_name = bucket_name /\ r.is_latest}

\* The rows the query of list_objects selects when versions is false
ListObjectsQuery(R, bucket_name) ==
    {r \in R : r.bucket_name = bucket_name /\ r.is_latest /\ ~r.is_delete_marker}

\* The response of list_objects: status, detail or root element, elements
ListResp(status, detail, elements) ==
    [status |-> status, detail |-> detail, elements |-> elements]

\* list_objects(bucket_name, versions): the responses it can give
list_objects(Bk, R, bucket_name, versions) ==
    IF bucket_name \notin Bk
    THEN {ListResp(404, "NoSuchBucket", <<>>)}
    ELSE IF versions
    THEN {ListResp(200, "ListVersionsResult",
                   [i \in DOMAIN results |-> VersionElement(results[i])])
            : results \in VersionOrders({r \in R : r.bucket_name = bucket_name})}
    ELSE {ListResp(200, "ListBucketResult",
                   [i \in DOMAIN results |-> Contents(results[i])])
            : results \in AllOrders(ListObjectsQuery(R, bucket_name))}

\* NextLatestChoices in ascending order: the oldest remaining row
NextLatestOldestFirst(R, bucket, key, versionId) ==
    LET rest == {r \in ChainOf(R, bucket, key) : r.version_id # versionId}
    IN  IF rest = {} THEN {{}}
        ELSE {{r} : r \in {x \in rest : \A y \in rest : x.last_modified <= y.last_modified}}

\* stmt_next ... .order_by(last_modified.desc()).first(): no row, or the
\* first row of an order the database may answer with
NextLatestChoices(R, bucket, key, versionId) ==
    LET rest == {r \in ChainOf(R, bucket, key) : r.version_id # versionId}
    IN  IF rest = {} THEN {{}} ELSE {{ord[1]} : ord \in DescOrders(rest)}

\* delete_object with a versionId, for the row obj it found and the row (if
\* any) it promotes
DeleteVersionPlan(obj, next_latest) ==
    Plan({r.version_id : r \in {x \in next_latest : ~x.is_latest}}, {},
         {obj.version_id}, {})

\* The files delete_object removes for the row it found
DeleteVersionFiles(obj) ==
    IF obj.storage_path # None THEN <<obj.storage_path>> ELSE <<>>

\* DeleteVersionFound without the conditions on bucket_name and key
DeleteVersionFoundInAnyChain(R, bucket, key, versionId) ==
    {r \in R : r.version_id = versionId}

\* The rows the first query of delete_object can answer with .first()
DeleteVersionFound(R, bucket, key, versionId) ==
    {r \in ChainOf(R, bucket, key) : r.version_id = versionId}

\* delete_object(bucket_name, key, versionId) with a versionId
delete_version(R, B, bucket, key, versionId) ==
    LET found == DeleteVersionFound(R, bucket, key, versionId)
        resp == Resp("delete_object", bucket, key, versionId, NoBody,
                     204, "", NoVid, NoEtag, NoBody)
    IN  IF found = {}
        THEN {Outcome(R, B, resp, FALSE)}
        ELSE UNION {
               {Outcome(Commit(R, DeleteVersionPlan(obj, next_latest)),
                        DeleteFiles(B, DeleteVersionFiles(obj)), resp, FALSE)
                  : next_latest \in IF obj.is_latest
                                    THEN NextLatestChoices(R, bucket, key, versionId)
                                    ELSE {{}}}
               : obj \in found}

\* DeleteMarkerPlan removing the old latest row instead of demoting it
DeleteMarkerPlanRemovesOld(old, delete_marker) ==
    Plan({}, {}, {r.version_id : r \in old}, {delete_marker})

\* delete_object from the demotion of the old latest row to the commit
DeleteMarkerPlan(old, delete_marker) ==
    Plan({}, {r.version_id : r \in old}, {}, {delete_marker})

\* delete_marker without the check that the bucket exists
DeleteMarkerNoBucketCheck(Bk, R, B, t, version_id, bucket, key) ==
    {Outcome(Commit(R, DeleteMarkerPlan({r \in R : r.version_id \in old},
                                        NewDeleteMarker(bucket, key, version_id, t))),
             B,
             Resp("delete_object", bucket, key, NoVid, NoBody,
                  204, "", version_id, NoEtag, NoBody), TRUE)
       : old \in OldLatestChoices(R, bucket, key)}

\* delete_object(bucket_name, key) without a versionId
delete_marker(Bk, R, B, t, version_id, bucket, key) ==
    IF bucket \notin Bk
    THEN {Outcome(R, B, Resp("delete_object", bucket, key, NoVid, NoBody,
                             404, "NoSuchBucket", NoVid, NoEtag, NoBody), FALSE)}
    ELSE {Outcome(Commit(R, DeleteMarkerPlan({r \in R : r.version_id \in old},
                                             NewDeleteMarker(bucket, key, version_id, t))),
                  B,
                  Resp("delete_object", bucket, key, NoVid, NoBody,
                       204, "", version_id, NoEtag, NoBody), TRUE)
            : old \in OldLatestChoices(R, bucket, key)}

\* Positions of the rows of the scan whose version_id is the target's
TargetPositions(all_versions, version_id) ==
    {i \in DOMAIN all_versions : all_versions[i].version_id = version_id}

\* NewerPositions of a loop that takes no row for a newer one
NewerPositionsNone(all_versions, version_id) ==
    {i \in DOMAIN all_versions : FALSE}

\* Positions the loop of ui_rollback reaches with target_found still False
NewerPositions(all_versions, version_id) ==
    {i \in DOMAIN all_versions :
        /\ all_versions[i].version_id # version_id
        /\ \A j \in TargetPositions(all_versions, version_id) : i < j}

\* Positions the loop reaches with target_found True, the target's aside
OlderPositions(all_versions, version_id) ==
    {i \in DOMAIN all_versions :
        /\ all_versions[i].version_id # version_id
        /\ \E j \in TargetPositions(all_versions, version_id) : j < i}

\* RollbackPlan deleting the rows older than the target as well
RollbackPlanRemovesOlder(all_versions, version_id) ==
    Plan({all_versions[i].version_id :
             i \in {j \in TargetPositions(all_versions, version_id) :
                       ~all_versions[j].is_latest}},
         {},
         {all_versions[i].version_id :
             i \in NewerPositions(all_versions, version_id)
                      \cup OlderPositions(all_versions, version_id)},
         {})

\* What the loop of ui_rollback leaves in the session
RollbackPlan(all_versions, version_id) ==
    Plan({all_versions[i].version_id :
             i \in {j \in TargetPositions(all_versions, version_id) :
                       ~all_versions[j].is_latest}},
         {all_versions[i].version_id :
             i \in {j \in OlderPositions(all_versions, version_id) :
                       all_versions[j].is_latest}},
         {all_versions[i].version_id : i \in NewerPositions(all_versions, version_id)},
         {})

RECURSIVE RollbackFilesFrom(_, _, _)
\* The storage paths the loop of ui_rollback passes to delete_physical_file,
\* in scan order, from position i on
RollbackFilesFrom(all_versions, version_id, i) ==
    IF i > Len(all_versions) THEN <<>>
    ELSE IF /\ i \in NewerPositions(all_versions, version_id)
            /\ all_versions[i].storage_path # None
         THEN <<all_versions[i].storage_path>>
                  \o RollbackFilesFrom(all_versions, version_id, i + 1)
         ELSE RollbackFilesFrom(all_versions, version_id, i + 1)

RollbackFiles(all_versions, version_id) ==
    RollbackFilesFrom(all_versions, version_id, 1)

\* ui_rollback(bucket_name, key, version_id): the loop runs to its end, and
\* only then is a missing target answered with 404, without a commit
ui_rollback(R, B, bucket, key, version_id) ==
    {LET B1 == DeleteFiles(B, RollbackFiles(all_versions, version_id))
     IN  IF TargetPositions(all_versions, version_id) = {}
         THEN Outcome(R, B1,
                      Resp("ui_rollback", bucket, key, version_id, NoBody,
                           404, "Target version not found in history",
                           NoVid, NoEtag, NoBody), FALSE)
         ELSE Outcome(Commit(R, RollbackPlan(all_versions, version_id)), B1,
                      Resp("ui_rollback", bucket, key, version_id, NoBody,
                           200, "success", NoVid, NoEtag, NoBody), FALSE)
       : all_versions \in DescOrders(ChainOf(R, bucket, key))}

(* ------------------------------ requests in flight -------------------- *)

\* A request in flight, between two of its statements: the handler and its
\* arguments, the uuid4 it drew, the row its first query loaded, what its
\* session holds, the files it still has to remove, and for ui_rollback
\* whether the loop met the target.  pc names the statement it runs next.
Request(pc, op, bucket, key, versionId, body, version_id, obj, plan, files, found) ==
    [pc |-> pc, op |-> op, bucket |-> bucket, key |-> key, versionId |-> versionId,
     body |-> body, version_id |-> version_id, obj |-> obj, plan |-> plan,
     files |-> files, found |-> found]

NoPlan == Plan({}, {}, {}, {})

Idle == Request("idle", "none", "", "", NoVid, NoBody, NoVid, {}, NoPlan, <<>>, FALSE)

(* ------------------------------ requests, one at a time --------------- *)

\* get_object changes no table and no blob: run between two other requests
\* it is a stuttering step, and its response in a state is
\* get_object(rows, blobs, bucket, key, versionId).

Init ==
    /\ buckets = {}
    /\ rows = {}
    /\ blobs = <<>>
    /\ now = 0
    /\ nextVid = 1
    /\ last = NoRequest
    /\ procs = [p \in Procs |-> Idle]

\* datetime.utcnow(): the time of the last reading, or a later one
UtcNow(t) == {t} \cup {u \in {t + 1} : u <= MaxTime}

\* A request runs from start to end with no other request in between; t is
\* the clock reading of the row it builds, if it builds one
Serve(outcomes, t) ==
    \E o \in outcomes :
        /\ rows' = o.rows
        /\ blobs' = o.blobs
        /\ last' = o.resp
        /\ nextVid' = IF o.drew THEN nextVid + 1 ELSE nextVid
        /\ now' = IF o.drew THEN t ELSE now
        /\ UNCHANGED <<buckets, procs>>

\* CreateBucketOf answering 200 for a registered name as well
CreateBucketAlwaysOk(Names) ==
    \E bucket \in Names :
        /\ buckets' = buckets \cup {bucket}
        /\ last' = Resp("create_bucket", bucket, "", NoVid, NoBody,
                        200, "", NoVid, NoEtag, NoBody)
        /\ UNCHANGED <<rows, blobs, now, nextVid, procs>>

\* create_bucket(bucket_name) for a name of the set Names
CreateBucketOf(Names) ==
    \E bucket \in Names :
        /\ buckets' = buckets \cup {bucket}
        /\ last' = IF bucket \in buckets
                   THEN Resp("create_bucket", bucket, "", NoVid, NoBody,
                             409, "BucketAlreadyExists", NoVid, NoEtag, NoBody)
                   ELSE Resp("create_bucket", bucket, "", NoVid, NoBody,
                             200, "", NoVid, NoEtag, NoBody)
        /\ UNCHANGED <<rows, blobs, now, nextVid, procs>>

\* put_object for a chain <<bucket, key>> of Cs and a body of Bds
PutObjectIn(Cs, Bds) ==
    \E c \in Cs, body \in Bds, ct \in ContentTypes :
        /\ c[1] \in buckets => nextVid <= MaxVid
        /\ \E t \in UtcNow(now) :
              Serve(put_object(buckets, rows, blobs, t, nextVid, c[1], c[2], body, ct), t)

\* delete_object with a versionId
DeleteVersionIn(Cs) ==
    \E c \in Cs, versionId \in Nameable(nextVid) :
        Serve(delete_version(rows, blobs, c[1], c[2], versionId), now)

\* delete_object without a versionId
DeleteMarkerIn(Cs) ==
    \E c \in Cs :
        /\ c[1] \in buckets => nextVid <= MaxVid
        /\ \E t \in UtcNow(now) :
              Serve(delete_marker(buckets, rows, blobs, t, nextVid, c[1], c[2]), t)

\* ui_rollback
RollbackIn(Cs) ==
    \E c \in Cs, version_id \in Nameable(nextVid) :
        Serve(ui_rollback(rows, blobs, c[1], c[2], version_id), now)

PutObject ==
    PutObjectIn(BucketNames \X Keys, Bodies)

DeleteVersion ==
    DeleteVersionIn(BucketNames \X Keys)

DeleteMarker ==
    DeleteMarkerIn(BucketNames \X Keys)

Rollback ==
    RollbackIn(BucketNames \X Keys)

CreateBucket ==
    CreateBucketOf(BucketNames)

Next ==
    \/ CreateBucket
    \/ PutObject
    \/ DeleteVersion
    \/ DeleteMarker
    \/ Rollback

Spec == Init /\ [][Next]_vars

(* ------------------------------ a clock that never repeats ------------- *)

\* The step builds no row, or the first row of the run, or a row whose
\* last_modified is later than that of every row built before
StrictClock ==
    (nextVid' # nextVid /\ nextVid # 1) => now' > now

PutObjectStrict ==
    PutObject /\ StrictClock

DeleteMarkerStrict ==
    DeleteMarker /\ StrictClock

NextStrict ==
    \/ CreateBucket
    \/ PutObjectStrict
    \/ DeleteVersion
    \/ DeleteMarkerStrict
    \/ Rollback

\* Requests run one at a time, every datetime.utcnow() of a new row later
\* than the one before
SpecStrict == Init /\ [][NextStrict]_vars

(* ------------------------------ requests on several keys --------------- *)

PutObjectKeys ==
    PutObjectIn(Chains, OneBody)

DeleteVersionKeys ==
    DeleteVersionIn(Chains)

DeleteMarkerKeys ==
    DeleteMarkerIn(Chains)

RollbackKeys ==
    RollbackIn(Chains)

NextKeys ==
    \/ CreateBucket
    \/ PutObjectKeys
    \/ DeleteVersionKeys
    \/ DeleteMarkerKeys
    \/ RollbackKeys

\* Requests run one at a time on three chains: two keys in one bucket, and
\* one of these keys in another bucket
SpecKeys == Init /\ [][NextKeys]_vars

(* ------------------------------ requests in parallel ------------------ *)

\* The request of process p ends with response resp
Respond(p, resp) ==
    /\ procs' = [procs EXCEPT ![p] = Idle]
    /\ last' = resp

\* put_object up to save_file: the bucket check, the uuid4, the blob
PutSave(p) ==
    \E bucket \in ParBuckets, key \in Keys, body \in Bodies :
        /\ procs[p].pc = "idle"
        /\ IF bucket \notin buckets
           THEN /\ Respond(p, Resp("put_object", bucket, key, NoVid, body,
                                   404, "NoSuchBucket", NoVid, NoEtag, NoBody))
                /\ UNCHANGED <<buckets, rows, blobs, now, nextVid>>
           ELSE /\ nextVid <= MaxParVid
                /\ blobs' = save_file(blobs, bucket, key, nextVid, body)
                /\ nextVid' = nextVid + 1
                /\ procs' = [procs EXCEPT ![p] =
                       Request("put_read", "put_object", bucket, key, NoVid, body,
                               nextVid, {}, NoPlan, <<>>, FALSE)]
                /\ UNCHANGED <<buckets, rows, now, last>>

\* PutRead with the demotion of the old latest row written to the table when
\* it is made, ahead of the commit that inserts the new row
PutReadAutocommit(p) ==
    /\ procs[p].pc = "put_read"
    /\ \E old \in OldLatestChoices(rows, procs[p].bucket, procs[p].key),
          t \in UtcNow(now), ct \in ContentTypes :
          /\ now' = t
          /\ rows' = Commit(rows, Plan({}, old, {}, {}))
          /\ procs' = [procs EXCEPT ![p] =
                 [procs[p] EXCEPT
                     !.pc = "commit",
                     !.plan = PutPlanNoDemotion({},
                                  NewObject(procs[p].bucket, procs[p].key,
                                            procs[p].version_id, procs[p].body,
                                            ct, t))]]
    /\ UNCHANGED <<buckets, blobs, nextVid, last>>

\* put_object from the query for the old latest row to the session.add of
\* the new row
PutRead(p) ==
    /\ procs[p].pc = "put_read"
    /\ \E old \in OldLatestChoices(rows, procs[p].bucket, procs[p].key),
          t \in UtcNow(now), ct \in ContentTypes :
          /\ now' = t
          /\ procs' = [procs EXCEPT ![p] =
                 [procs[p] EXCEPT
                     !.pc = "commit",
                     !.plan = PutPlan({r \in rows : r.version_id \in old},
                                      NewObject(procs[p].bucket, procs[p].key,
                                                procs[p].version_id, procs[p].body,
                                                ct, t))]]
    /\ UNCHANGED <<buckets, rows, blobs, nextVid, last>>

\* delete_object without versionId up to the session.add of the delete marker
DeleteMarkerRead(p) ==
    \E bucket \in ParBuckets, key \in Keys :
        /\ procs[p].pc = "idle"
        /\ IF bucket \notin buckets
           THEN /\ Respond(p, Resp("delete_object", bucket, key, NoVid, NoBody,
                                   404, "NoSuchBucket", NoVid, NoEtag, NoBody))
                /\ UNCHANGED <<buckets, rows, blobs, now, nextVid>>
           ELSE /\ nextVid <= MaxParVid
                /\ \E old \in OldLatestChoices(rows, bucket, key), t \in UtcNow(now) :
                      /\ now' = t
                      /\ procs' = [procs EXCEPT ![p] =
                             Request("commit", "delete_object", bucket, key, NoVid, NoBody,
                                     nextVid, {},
                                     DeleteMarkerPlan({r \in rows : r.version_id \in old},
                                                      NewDeleteMarker(bucket, key, nextVid, t)),
                                     <<>>, FALSE)]
                /\ nextVid' = nextVid + 1
                /\ UNCHANGED <<buckets, rows, blobs, last>>

\* delete_object with a versionId: its first query
DeleteVersionRead(p) ==
    \E bucket \in ParBuckets, key \in Keys, versionId \in Nameable(nextVid) :
        /\ procs[p].pc = "idle"
        /\ LET found == DeleteVersionFound(rows, bucket, key, versionId)
           IN  IF found = {}
               THEN Respond(p, Resp("delete_object", bucket, key, versionId, NoBody,
                                    204, "", NoVid, NoEtag, NoBody))
               ELSE /\ \E obj \in found :
                          procs' = [procs EXCEPT ![p] =
                              Request(IF obj.is_latest THEN "delete_next" ELSE "files",
                                      "delete_object", bucket, key, versionId, NoBody,
                                      NoVid, {obj}, DeleteVersionPlan(obj, {}),
                                      DeleteVersionFiles(obj), TRUE)]
                    /\ UNCHANGED last
        /\ UNCHANGED <<buckets, rows, blobs, now, nextVid>>

\* delete_object with the versionId of a latest row: the query for the row
\* to promote
DeleteVersionReadNext(p) ==
    /\ procs[p].pc = "delete_next"
    /\ \E next_latest \in NextLatestChoices(rows, procs[p].bucket, procs[p].key,
                                            procs[p].versionId) :
          procs' = [procs EXCEPT ![p] =
              [procs[p] EXCEPT
                  !.pc = "files",
                  !.plan = DeleteVersionPlan(TheRow(procs[p].obj), next_latest)]]
    /\ UNCHANGED <<buckets, rows, blobs, now, nextVid, last>>

\* ui_rollback: its query
RollbackRead(p) ==
    \E bucket \in ParBuckets, key \in Keys, version_id \in Nameable(nextVid) :
        /\ procs[p].pc = "idle"
        /\ \E all_versions \in DescOrders(ChainOf(rows, bucket, key)) :
              procs' = [procs EXCEPT ![p] =
                  Request("files", "ui_rollback", bucket, key, version_id, NoBody,
                          NoVid, {}, RollbackPlan(all_versions, version_id),
                          RollbackFiles(all_versions, version_id),
                          TargetPositions(all_versions, version_id) # {})]
        /\ UNCHANGED <<buckets, rows, blobs, now, nextVid, last>>

\* One call of delete_physical_file, in delete_object or in the loop of
\* ui_rollback
DeleteFile(p) ==
    /\ procs[p].pc = "files"
    /\ procs[p].files # <<>>
    /\ blobs' = delete_physical_file(blobs, Head(procs[p].files))
    /\ procs' = [procs EXCEPT ![p] = [procs[p] EXCEPT !.files = Tail(procs[p].files)]]
    /\ UNCHANGED <<buckets, rows, now, nextVid, last>>

\* The response of a request whose commit went through
Committed(r) ==
    IF r.op = "put_object"
    THEN Resp("put_object", r.bucket, r.key, NoVid, r.body,
              200, "", r.version_id, calculate_etag(r.body), NoBody)
    ELSE IF r.op = "delete_object"
    THEN Resp("delete_object", r.bucket, r.key, r.versionId, NoBody,
              204, "", r.version_id, NoEtag, NoBody)
    ELSE Resp("ui_rollback", r.bucket, r.key, r.versionId, NoBody,
              200, "success", NoVid, NoEtag, NoBody)

\* session.commit() and the response; ui_rollback raises its 404 instead
\* when the loop never met the target; a failed commit is a 500
Finish(p) ==
    /\ \/ procs[p].pc = "commit"
       \/ procs[p].pc = "files" /\ procs[p].files = <<>>
    /\ LET r == procs[p]
       IN  IF r.op = "ui_rollback" /\ ~r.found
           THEN /\ rows' = rows
                /\ Respond(p, Resp("ui_rollback", r.bucket, r.key, r.versionId, NoBody,
                                   404, "Target version not found in history",
                                   NoVid, NoEtag, NoBody))
           ELSE IF CommitStale(rows, r.plan)
           THEN /\ rows' = rows
                /\ Respond(p, Resp(r.op, r.bucket, r.key, r.versionId, r.body,
                                   500, "Internal Server Error", NoVid, NoEtag, NoBody))
           ELSE /\ rows' = Commit(rows, r.plan)
                /\ Respond(p, Committed(r))
    /\ UNCHANGED <<buckets, blobs, now, nextVid>>

\* create_bucket, as one step
CreateBucketPar ==
    CreateBucketOf(ParBuckets)

NextPar ==
    \/ CreateBucketPar
    \/ \E p \in Procs :
          \/ PutSave(p)
          \/ PutRead(p)
          \/ DeleteMarkerRead(p)
          \/ DeleteVersionRead(p)
          \/ DeleteVersionReadNext(p)
          \/ RollbackRead(p)
          \/ DeleteFile(p)
          \/ Finish(p)

\* Put, Delete and Rollback requests served in parallel on one chain: the
\* statements of the requests in flight interleave, each statement against
\* the committed tables and the blob store as they are when it runs.  The
\* handlers are coroutines with no await between their first query and their
\* commit, so two of them interleave only when two server processes serve
\* the same database and storage root.
SpecPar == Init /\ [][NextPar]_vars

(* ------------------------------ one request, statement by statement --- *)

\* No process other than p has a Put, a Delete or a Rollback in flight
OneMutation(p) ==
    \A q \in Procs \ {p} : procs[q].op \in {"none", "get_object"}

\* put_object up to the open(file_path, "wb") of save_file: the bucket
\* check, the uuid4, and an empty file at the path
PutOpen(p) ==
    \E bucket \in ParBuckets, key \in Keys, body \in Bodies :
        /\ procs[p].pc = "idle"
        /\ IF bucket \notin buckets
           THEN /\ Respond(p, Resp("put_object", bucket, key, NoVid, body,
                                   404, "NoSuchBucket", NoVid, NoEtag, NoBody))
                /\ UNCHANGED <<buckets, rows, blobs, now, nextVid>>
           ELSE /\ nextVid <= MaxParVid
                /\ blobs' = save_file(blobs, bucket, key, nextVid, NoBody)
                /\ nextVid' = nextVid + 1
                /\ procs' = [procs EXCEPT ![p] =
                       Request("put_copy", "put_object", bucket, key, NoVid, body,
                               nextVid, {}, NoPlan, <<>>, FALSE)]
                /\ UNCHANGED <<buckets, rows, now, last>>

\* PutCopy going on to the query for the old latest row after the first
\* chunk, whatever is left of the body
PutCopyFirstChunkOnly(p) ==
    /\ procs[p].pc = "put_copy"
    /\ blobs' = save_file(blobs, procs[p].bucket, procs[p].key, procs[p].version_id,
                          SubSeq(procs[p].body, 1, 1))
    /\ procs' = [procs EXCEPT ![p] = [procs[p] EXCEPT !.pc = "put_read"]]
    /\ UNCHANGED <<buckets, rows, now, nextVid, last>>

\* shutil.copyfileobj of save_file: one more chunk of the body reaches the
\* file (a chunk is one byte here); after the last chunk the file is closed
PutCopy(p) ==
    /\ procs[p].pc = "put_copy"
    /\ LET path    == StoragePath(procs[p].bucket, procs[p].key, procs[p].version_id)
           written == IF path \in DOMAIN blobs THEN Len(blobs[path]) ELSE 0
           data    == SubSeq(procs[p].body, 1, written + 1)
       IN  /\ blobs' = save_file(blobs, procs[p].bucket, procs[p].key,
                                 procs[p].version_id, data)
           /\ procs' = [procs EXCEPT ![p] =
                  [procs[p] EXCEPT !.pc = IF data = procs[p].body
                                          THEN "put_read" ELSE "put_copy"]]
    /\ UNCHANGED <<buckets, rows, now, nextVid, last>>

\* get_object: its query, and the NoSuchKey answers that need no file
GetRead(p) ==
    \E bucket \in ParBuckets, key \in Keys, versionId \in Nameable(nextVid) \cup {NoVid} :
        /\ procs[p].pc = "idle"
        /\ LET cand == GetCandidates(rows, bucket, key, versionId)
           IN  IF cand = {}
               THEN Respond(p, NoSuchKey(bucket, key, versionId))
               ELSE \E obj \in cand :
                       IF obj.is_delete_marker
                       THEN Respond(p, GetResponse(blobs, bucket, key, versionId, obj))
                       ELSE /\ procs' = [procs EXCEPT ![p] =
                                   Request("get_file", "get_object", bucket, key,
                                           versionId, NoBody, NoVid, {obj}, NoPlan,
                                           <<>>, TRUE)]
                            /\ UNCHANGED last
        /\ UNCHANGED <<buckets, rows, blobs, now, nextVid>>

\* get_object: get_file_content for the row its query loaded, and the
\* response
GetFile(p) ==
    /\ procs[p].pc = "get_file"
    /\ Respond(p, GetResponse(blobs, procs[p].bucket, procs[p].key,
                              procs[p].versionId, TheRow(procs[p].obj)))
    /\ UNCHANGED <<buckets, rows, blobs, now, nextVid>>

\* A statement of put_object, delete_object or ui_rollback raises before
\* session.commit(): the session is closed with nothing committed, the
\* files written or removed so far stay as they are, the client gets a 500
Fail(p) ==
    /\ procs[p].op \in {"put_object", "delete_object", "ui_rollback"}
    /\ Respond(p, Resp(procs[p].op, procs[p].bucket, procs[p].key, procs[p].versionId,
                       procs[p].body, 500, "Internal Server Error",
                       NoVid, NoEtag, NoBody))
    /\ UNCHANGED <<buckets, rows, blobs, now, nextVid>>

NextSteps ==
    \/ CreateBucketPar
    \/ \E p \in Procs :
          \/ GetRead(p)
          \/ GetFile(p)
          \/ OneMutation(p) /\ PutOpen(p)
          \/ OneMutation(p) /\ PutCopy(p)
          \/ OneMutation(p) /\ PutRead(p)
          \/ OneMutation(p) /\ DeleteMarkerRead(p)
          \/ OneMutation(p) /\ DeleteVersionRead(p)
          \/ OneMutation(p) /\ DeleteVersionReadNext(p)
          \/ OneMutation(p) /\ RollbackRead(p)
          \/ OneMutation(p) /\ DeleteFile(p)
          \/ OneMutation(p) /\ Finish(p)
          \/ OneMutation(p) /\ Fail(p)

\* One Put, Delete or Rollback request at a time, run statement by statement
\* and free to fail before its commit, with Get requests of the other
\* processes running between its statements.
SpecSteps == Init /\ [][NextSteps]_vars

(* ------------------------------ properties ---------------------------- *)

Latest(R, bucket, key) == {r \in ChainOf(R, bucket, key) : r.is_latest}

VidsOf(S) == {r.version_id : r \in S}

\* C1: after any sequence of Put, Delete (with or without version_id) and
\* Rollback requests run one at a time, every non-empty chain has exactly
\* one row with is_latest = true.
C1_ExactlyOneLatest ==
    \A bucket \in BucketNames, key \in Keys :
        ChainOf(rows, bucket, key) # {}
            => Cardinality(Latest(rows, bucket, key)) = 1

\* C1 witness: a rollback succeeded on a chain that keeps two rows, after
\* three rows were created.
C1_Witness ==
    /\ last.op = "ui_rollback"
    /\ last.status = 200
    /\ nextVid = MaxVid + 1
    /\ Cardinality(ChainOf(rows, last.bucket, last.key)) = 2

\* C2: Put, Delete and Rollback requests served in parallel on one chain are
\* linearized; in particular, once no request is in flight, the chain has
\* exactly one current row if it has any row.
C2_ParallelRequestsKeepOneLatest ==
    (\A p \in Procs : procs[p].pc = "idle")
        => \A bucket \in ParBuckets, key \in Keys :
              ChainOf(rows, bucket, key) # {}
                  => Cardinality(Latest(rows, bucket, key)) = 1

\* C3: a Rollback whose target version_id is not in the chain answers 404
\* and changes no row of the table and no blob of the store.
C3_RollbackUnknownChangesNothing ==
    [][(/\ last'.op = "ui_rollback"
        /\ last'.versionId \notin VidsOf(ChainOf(rows, last'.bucket, last'.key)))
          => (/\ last'.status = 404
              /\ rows' = rows
              /\ blobs' = blobs)]_vars

\* C4: every row that is not a delete marker has a storage_path whose blob
\* is in the store, every delete marker has no storage_path, and no Get
\* answers InternalError.
C4_RowsHaveTheirBlobs ==
    /\ \A r \in rows :
          IF r.is_delete_marker
          THEN r.storage_path = None
          ELSE r.storage_path \in DOMAIN blobs
    /\ \A bucket \in BucketNames, key \in Keys, versionId \in VersionIds \cup {NoVid} :
          \A resp \in get_object(rows, blobs, bucket, key, versionId) :
              resp.status # 500

\* The rows of a chain with the given version_id
RowsWithVid(R, bucket, key, v) ==
    {r \in ChainOf(R, bucket, key) : r.version_id = v}

\* What Get without version_id answers when it returns the content of row r
\* as the blob store B holds it
GetReturns(bucket, key, r, B) ==
    Resp("get_object", bucket, key, NoVid, NoBody,
         200, "", r.version_id, r.etag, B[r.storage_path])

\* C5: a Rollback to a version_id of the chain removes the row and the blob
\* of every version with a later last_modified, keeps the target and every
\* row with an earlier last_modified together with their blobs, and leaves
\* the target the only current row; and on a chain of three Puts a Rollback
\* to the first of them leaves exactly that one row, whose content Get
\* without version_id returns.
C5_RollbackKeepsTargetAndOlder ==
    [][(/\ last'.op = "ui_rollback"
        /\ last'.status = 200)
          => LET bucket == last'.bucket
                 key    == last'.key
                 chain  == ChainOf(rows, bucket, key)
                 after  == ChainOf(rows', bucket, key)
                 target == TheRow(RowsWithVid(rows, bucket, key, last'.versionId))
                 newer  == {r \in chain : r.last_modified > target.last_modified}
                 older  == {r \in chain : r.last_modified < target.last_modified}
             IN  /\ VidsOf(newer) \cap VidsOf(after) = {}
                 /\ \A r \in newer : r.storage_path \notin DOMAIN blobs'
                 /\ VidsOf(older) \cup {target.version_id} \subseteq VidsOf(after)
                 /\ \A r \in older \cup {target} :
                       r.storage_path \in DOMAIN blobs
                           => /\ r.storage_path \in DOMAIN blobs'
                              /\ blobs'[r.storage_path] = blobs[r.storage_path]
                 /\ VidsOf(Latest(rows', bucket, key)) = {target.version_id}
                 /\ (/\ Cardinality(chain) = 3
                     /\ \A r \in chain : ~r.is_delete_marker
                     /\ \A r \in chain : target.version_id <= r.version_id
                     /\ target.storage_path \in DOMAIN blobs)
                        => /\ Cardinality(after) = 1
                           /\ get_object(rows', blobs', bucket, key, NoVid)
                                = {GetReturns(bucket, key, target, blobs)}]_vars

\* C6: right after a successful Put, Get without version_id on the same key
\* returns the bytes of the request body, the version_id that Put returned,
\* and the digest of the body.
C6_PutThenGet ==
    (last.op = "put_object" /\ last.status = 200)
        => get_object(rows, blobs, last.bucket, last.key, NoVid)
             = {Resp("get_object", last.bucket, last.key, NoVid, NoBody,
                     200, "", last.version_id, calculate_etag(last.req_body),
                     last.req_body)}

\* C6 witness: a Put succeeded on a chain that already held two rows.
C6_Witness ==
    /\ last.op = "put_object"
    /\ last.status = 200
    /\ Cardinality(ChainOf(rows, last.bucket, last.key)) = 3

\* C7: while a delete marker is the current row of a key, Get without
\* version_id fails NoSuchKey; Get with a delete marker's own version_id fails
\* NoSuchKey; both responses are the ones a never-written key gives; and
\* this holds in particular right after a Delete without version_id.
C7_TombstoneIsNoSuchKey ==
    /\ \A r \in rows :
          r.is_delete_marker
            => /\ get_object(rows, blobs, r.bucket_name, r.key, r.version_id)
                    = {NoSuchKey(r.bucket_name, r.key, r.version_id)}
               /\ get_object(rows, blobs, r.bucket_name, r.key, r.version_id)
                    = get_object({}, <<>>, r.bucket_name, r.key, r.version_id)
               /\ r.is_latest
                    => /\ get_object(rows, blobs, r.bucket_name, r.key, NoVid)
                            = {NoSuchKey(r.bucket_name, r.key, NoVid)}
                       /\ get_object(rows, blobs, r.bucket_name, r.key, NoVid)
                            = get_object({}, <<>>, r.bucket_name, r.key, NoVid)
    /\ (last.op = "delete_object" /\ last.versionId = NoVid /\ last.status = 204)
          => /\ get_object(rows, blobs, last.bucket, last.key, NoVid)
                  = {NoSuchKey(last.bucket, last.key, NoVid)}
             /\ get_object(rows, blobs, last.bucket, last.key, last.version_id)
                  = {NoSuchKey(last.bucket, last.key, last.version_id)}

\* C7 witness: a Delete without version_id succeeded on a key that has a
\* content row whose blob is in the store.
C7_Witness ==
    /\ last.op = "delete_object"
    /\ last.versionId = NoVid
    /\ last.status = 204
    /\ \E r \in ChainOf(rows, last.bucket, last.key) :
          ~r.is_delete_marker /\ r.storage_path \in DOMAIN blobs

\* C8: a Delete without version_id removes no row and no blob: it clears
\* is_latest on the former current row and inserts one row that is current,
\* is a delete marker and has no storage_path; every version a Get with its
\* version_id returned before is returned with the same bytes after.
C8_DeleteMarkerRemovesNothing ==
    [][(/\ last'.op = "delete_object"
        /\ last'.versionId = NoVid
        /\ last'.status = 204)
          => LET bucket == last'.bucket
                 key    == last'.key
                 marker == RowsWithVid(rows', bucket, key, last'.version_id)
             IN  /\ blobs' = blobs
                 /\ Cardinality(marker) = 1
                 /\ \A m \in marker :
                       /\ m.is_latest
                       /\ m.is_delete_marker
                       /\ m.storage_path = None
                       /\ m \notin rows
                 /\ rows' \ marker =
                       {IF r \in Latest(rows, bucket, key)
                        THEN [r EXCEPT !.is_latest = FALSE] ELSE r : r \in rows}
                 /\ \A v \in VersionIds :
                       \A resp \in get_object(rows, blobs, bucket, key, v) :
                           resp.status = 200
                             => get_object(rows', blobs', bucket, key, v) = {resp}]_vars

\* C8 witness: a Delete without version_id succeeded on a key whose earlier
\* content version is still returned by Get with its version_id.
C8_Witness ==
    /\ last.op = "delete_object"
    /\ last.versionId = NoVid
    /\ last.status = 204
    /\ \E r \in ChainOf(rows, last.bucket, last.key) :
          /\ ~r.is_latest
          /\ \E resp \in get_object(rows, blobs, last.bucket, last.key, r.version_id) :
                resp.status = 200

\* The rows of S with the greatest last_modified
Newest(S) == {r \in S : \A x \in S : x.last_modified <= r.last_modified}

\* What a Get without version_id answers once row r is the current row of
\* its chain, whatever r is: its content, NoSuchKey for a delete marker,
\* InternalError for a content row whose blob is not in the store B
GetResolves(bucket, key, r, B) ==
    IF r.is_delete_marker THEN NoSuchKey(bucket, key, NoVid)
    ELSE IF r.storage_path \in DOMAIN B THEN GetReturns(bucket, key, r, B)
    ELSE Resp("get_object", bucket, key, NoVid, NoBody,
              500, "InternalError: File missing on disk", NoVid, NoEtag, NoBody)

\* The effect of a Delete with the version_id of row obj of the chain, from
\* tables R and store B to tables R2 and store B2: obj and its blob are
\* gone and nothing else is removed; if obj was current, a remaining row
\* with the greatest last_modified is current and answers(p) is what Get
\* without version_id gives for it; if obj was not current, the other rows
\* are as they were.
TargetedDeleteEffect(R, B, R2, B2, bucket, key, obj, answers(_)) ==
    LET rest == ChainOf(R, bucket, key) \ {obj}
    IN  /\ B2 = [q \in (DOMAIN B) \ {obj.storage_path} |-> B[q]]
        /\ IF obj.is_latest /\ rest # {}
           THEN \E p \in Newest(rest) :
                   /\ R2 = {IF r = p THEN [r EXCEPT !.is_latest = TRUE] ELSE r
                              : r \in R \ {obj}}
                   /\ get_object(R2, B2, bucket, key, NoVid) = {answers(p)}
           ELSE R2 = R \ {obj}

\* A step that is a Delete with the version_id of a row of the chain
TargetedDeleteStep(bucket, key, v) ==
    /\ last'.op = "delete_object"
    /\ last'.bucket = bucket
    /\ last'.key = key
    /\ last'.versionId = v
    /\ v # NoVid
    /\ RowsWithVid(rows, bucket, key, v) # {}

\* C9 as stated: a Delete with the version_id of the current row removes
\* that row and its blob and makes the remaining row with the greatest
\* last_modified current, whose content a following Get without version_id
\* returns; with no row left the chain is empty; a Delete with the
\* version_id of a non-current row removes only that row and its blob.
C9_PromotedRowContentReturned ==
    [][\A bucket \in BucketNames, key \in Keys, v \in VersionIds :
         TargetedDeleteStep(bucket, key, v)
           => LET obj == TheRow(RowsWithVid(rows, bucket, key, v))
                  Content(p) ==
                      IF ~p.is_delete_marker /\ p.storage_path \in DOMAIN blobs
                      THEN GetReturns(bucket, key, p, blobs)
                      ELSE NoRequest
              IN  TargetedDeleteEffect(rows, blobs, rows', blobs',
                                       bucket, key, obj, Content)]_vars

\* C9 as amended: the same, except that the following Get without version_id
\* resolves the promoted row: it returns that row's content when the row is
\* a content row whose blob is in the store, fails NoSuchKey when the row is
\* a delete marker, and fails InternalError when the row's blob is missing.
C9_PromotedRowResolved ==
    [][\A bucket \in BucketNames, key \in Keys, v \in VersionIds :
         TargetedDeleteStep(bucket, key, v)
           => LET obj == TheRow(RowsWithVid(rows, bucket, key, v))
                  Resolved(p) == GetResolves(bucket, key, p, blobs')
              IN  /\ last'.status = 204
                  /\ TargetedDeleteEffect(rows, blobs, rows', blobs',
                                          bucket, key, obj, Resolved)]_vars

\* C9 witness: the third version of a chain was deleted by its version_id
\* and, of the two rows left with different last_modified, the later one, a
\* delete marker, is current.
C9_Witness ==
    /\ last.op = "delete_object"
    /\ last.versionId = MaxVid
    /\ nextVid = MaxVid + 1
    /\ \E p, q \in ChainOf(rows, last.bucket, last.key) :
          /\ p.is_latest /\ p.is_delete_marker
          /\ q.last_modified < p.last_modified
          /\ ~q.is_delete_marker

\* C10: a Delete with a version_id that is not in the chain answers 204 and
\* changes no row and no blob; and after any Delete with a version_id, the
\* same Delete again answers 204 and leaves the state it finds.
C10_DeleteAbsentVersionIsNoOp ==
    [][(last'.op = "delete_object" /\ last'.versionId # NoVid)
         => LET bucket == last'.bucket
                key    == last'.key
                v      == last'.versionId
            IN  /\ last'.status = 204
                /\ RowsWithVid(rows, bucket, key, v) = {}
                      => rows' = rows /\ blobs' = blobs
                /\ \A o \in delete_version(rows', blobs', bucket, key, v) :
                      /\ o.resp.status = 204
                      /\ o.rows = rows'
                      /\ o.blobs = blobs']_vars

\* C10 witness: a Delete named a version_id that is in the other bucket's
\* chain and not in the chain of its own bucket, which has rows of its own.
C10_Witness ==
    /\ last.op = "delete_object"
    /\ last.versionId # NoVid
    /\ ChainOf(rows, last.bucket, last.key) # {}
    /\ RowsWithVid(rows, last.bucket, last.key, last.versionId) = {}
    /\ \E r \in rows : r.version_id = last.versionId /\ r.bucket_name # last.bucket

\* C11: a Put, and a Delete without version_id, on a bucket that was never
\* created fails NoSuchBucket (404) and leaves the state as it was: no row
\* inserted or demoted, no blob written, no bucket registered.
C11_MissingBucketChangesNothing ==
    [][(/\ last'.op \in {"put_object", "delete_object"}
        /\ last'.versionId = NoVid
        /\ last'.bucket \notin buckets)
          => (/\ last'.status = 404
              /\ last'.detail = "NoSuchBucket"
              /\ rows' = rows
              /\ blobs' = blobs
              /\ buckets' = buckets
              /\ nextVid' = nextVid)]_vars

\* C11 witness: a Put failed NoSuchBucket while the other bucket holds a
\* chain with a current row and its blob.
C11_Witness ==
    /\ last.op = "put_object"
    /\ last.status = 404
    /\ last.detail = "NoSuchBucket"
    /\ last.bucket \notin buckets
    /\ \E r \in rows : r.is_latest /\ r.storage_path \in DOMAIN blobs

\* Every content row whose blob is missing from the store is a row that a
\* request in flight is removing: a Delete with its version_id, or a Rollback
\* whose target is in the chain
MissingOnlyByMutationInFlight ==
    \A r \in rows :
        (~r.is_delete_marker /\ r.storage_path \notin DOMAIN blobs)
          => \E q \in Procs :
                /\ procs[q].op \in {"delete_object", "ui_rollback"}
                /\ procs[q].found
                /\ r.version_id \in procs[q].plan.del

\* C12: a Get that runs between the statements of a Put, a Delete or a
\* Rollback of the same chain sees the chain as it was before or as it is
\* after that request: at every point the chain, if it has a row, has
\* exactly one current row, and the Get never answers for a row whose blob
\* the request has already removed.
C12_GetSeesConsistentSnapshot ==
    /\ [](\A bucket \in ParBuckets, key \in Keys :
            ChainOf(rows, bucket, key) # {}
                => Cardinality(Latest(rows, bucket, key)) = 1)
    /\ [][\A p \in Procs :
            (/\ procs[p].pc = "get_file"
             /\ procs'[p].pc = "idle"
             /\ MissingOnlyByMutationInFlight)
               => last'.status # 500]_vars

\* The positions of a listing whose element is for the given key
ElementsOf(elements, key) == {i \in DOMAIN elements : elements[i].Key = key}

\* C13: List without history on a registered bucket answers with exactly
\* the current rows of that bucket that are not delete markers: one element
\* for each key whose current row is a content row, that row's element, and
\* no element for a key whose current row is a delete marker, for a
\* historical row or for a row of another bucket; on a bucket that is not
\* registered it fails NoSuchBucket.
C13_ListShowsCurrentContentRows ==
    \A bucket \in BucketNames :
        \A resp \in list_objects(buckets, rows, bucket, FALSE) :
            IF bucket \notin buckets
            THEN resp = ListResp(404, "NoSuchBucket", <<>>)
            ELSE /\ resp.status = 200
                 /\ \A key \in ManyKeys :
                       LET cur == {r \in Latest(rows, bucket, key) : ~r.is_delete_marker}
                       IN  /\ Cardinality(ElementsOf(resp.elements, key)) = Cardinality(cur)
                           /\ Cardinality(cur) <= 1
                           /\ \A i \in ElementsOf(resp.elements, key) :
                                 \A r \in cur : resp.elements[i] = Contents(r)
                 /\ \A i \in DOMAIN resp.elements : resp.elements[i].Key \in ManyKeys

\* C13 witness: a registered bucket holds three rows on two keys, one key
\* with a content row current, the other with a delete marker current over a
\* historical content row, and its listing has one element.
C13_Witness ==
    \E bucket \in buckets :
        /\ \E r \in Latest(rows, bucket, "k1") : ~r.is_delete_marker
        /\ \E r \in Latest(rows, bucket, "k2") : r.is_delete_marker
        /\ \E r \in ChainOf(rows, bucket, "k2") : ~r.is_latest /\ ~r.is_delete_marker
        /\ \A resp \in list_objects(buckets, rows, bucket, FALSE) :
              Len(resp.elements) = 1

\* Process p has a Put in flight before or after the step
PutInFlight(p) ==
    procs[p].op = "put_object" \/ procs'[p].op = "put_object"

\* The step is the commit of the Put of process p, answered with 200
PutCommits(p) ==
    /\ procs[p].op = "put_object"
    /\ procs[p].pc = "commit"
    /\ procs'[p].pc = "idle"
    /\ last'.op = "put_object"
    /\ last'.status = 200

\* C14: in Put the demotion of the previous current row and the insertion
\* of the new current row take effect in one commit: no statement of a Put
\* before its commit changes a row, so a Put that fails leaves the rows as
\* they were before it; the commit leaves the chain with the new row as its
\* only current row; and at every point, a failure included, a chain with
\* rows has exactly one current row.
C14_PutCommitsDemotionAndInsertTogether ==
    /\ [][\A p \in Procs :
            PutInFlight(p)
              => IF PutCommits(p)
                 THEN /\ VidsOf(Latest(rows', last'.bucket, last'.key))
                           = {last'.version_id}
                      /\ VidsOf(rows') = VidsOf(rows) \cup {last'.version_id}
                 ELSE rows' = rows]_vars
    /\ [](\A bucket \in ParBuckets, key \in Keys :
            ChainOf(rows, bucket, key) # {}
                => Cardinality(Latest(rows, bucket, key)) = 1)

\* C14 witness: a Put failed after its blob was written in full, on a chain
\* that has a current row, which is still the only current row.
C14_Witness ==
    /\ last.op = "put_object"
    /\ last.status = 500
    /\ Cardinality(Latest(rows, last.bucket, last.key)) = 1
    /\ \E path \in DOMAIN blobs :
          /\ blobs[path] = last.req_body
          /\ \A r \in rows : r.storage_path # path

\* The step is a call of delete_physical_file by the request of process p,
\* a Delete with the version_id of a row of the chain or a Rollback whose
\* target is in the chain
RemovesFile(p) ==
    /\ procs[p].pc = "files"
    /\ procs[p].files # <<>>
    /\ procs'[p].files = Tail(procs[p].files)
    /\ procs[p].found

\* C15: Delete with version_id and Rollback remove the blob of a version
\* only after the commit that removes the row referencing it: when
\* delete_physical_file is called on a path, no row of the table has that
\* storage_path.
C15_BlobRemovedAfterRowCommit ==
    [][\A p \in Procs :
         RemovesFile(p)
           => \A r \in rows' : r.storage_path # Head(procs[p].files)]_vars

\* The step is the get_file_content of the Get of process p, and its response
ReadsFile(p) ==
    /\ procs[p].pc = "get_file"
    /\ procs'[p].pc = "idle"

\* At the commit of a Put the file at the new row's storage_path holds the
\* whole request body, and the commit leaves the store as it is
PutCommitsAfterBlob ==
    \A p \in Procs :
        PutCommits(p)
          => \A r \in RowsWithVid(rows', last'.bucket, last'.key, last'.version_id) :
                /\ r \notin rows
                /\ r.storage_path \in DOMAIN blobs
                /\ blobs[r.storage_path] = procs[p].body
                /\ blobs' = blobs

OtherRows(R, bucket, key) ==
    {r \in R : r.bucket_name # bucket \/ r.key # key}

\* The files of store B under directories other than that of (bucket, key)
OtherFiles(B, bucket, key) ==
    {path \in DOMAIN B : path[1] # bucket \/ path[2] # Md5Hex(key)}

\* C18: a Put, a Delete or a Rollback on (bucket, key) leaves the rows and
\* the blobs of every other chain as they were, chains of the same key in
\* another bucket and of another key in the same bucket included.
C18_OtherChainsUnchanged ==
    [][last'.op \in {"put_object", "delete_object", "ui_rollback"}
         => /\ OtherRows(rows', last'.bucket, last'.key)
                 = OtherRows(rows, last'.bucket, last'.key)
            /\ OtherFiles(blobs', last'.bucket, last'.key)
                 = OtherFiles(blobs, last'.bucket, last'.key)
            /\ \A path \in OtherFiles(blobs, last'.bucket, last'.key) :
                  blobs'[path] = blobs[path]]_vars

\* C18 witness: a Delete with version_id removed the only row of its chain
\* while a chain of another key in the same bucket and a chain of the same
\* key in another bucket each hold a current row with its blob.
C18_Witness ==
    /\ last.op = "delete_object"
    /\ last.versionId # NoVid
    /\ last.versionId < nextVid
    /\ \A r \in rows : r.bucket_name # last.bucket \/ r.key # last.key
    /\ \E r \in rows :
          /\ r.bucket_name = last.bucket /\ r.key # last.key
          /\ r.is_latest /\ r.storage_path \in DOMAIN blobs
    /\ \E r \in rows :
          /\ r.bucket_name # last.bucket /\ r.key = last.key
          /\ r.is_latest /\ r.storage_path \in DOMAIN blobs

\* C19: Create bucket on a name that is not registered answers 200 and
\* registers it; on a registered name it fails BucketAlreadyExists (409) and
\* leaves the registry as it is; either way no row and no blob changes; and
\* no operation removes a registered bucket.
C19_CreateBucketOnceAndForAll ==
    /\ [][last'.op = "create_bucket"
            => /\ IF last'.bucket \in buckets
                  THEN /\ last'.status = 409
                       /\ last'.detail = "BucketAlreadyExists"
                       /\ buckets' = buckets
                  ELSE /\ last'.status = 200
                       /\ buckets' = buckets \cup {last'.bucket}
               /\ rows' = rows
               /\ blobs' = blobs]_vars
    /\ [][buckets \subseteq buckets']_vars

\* C19 witness: Create bucket failed BucketAlreadyExists on a bucket that
\* holds rows, with the other bucket registered too.
C19_Witness ==
    /\ last.op = "create_bucket"
    /\ last.status = 409
    /\ buckets = BucketNames
    /\ \E r \in rows : r.bucket_name = last.bucket /\ r.storage_path \in DOMAIN blobs

\* C20: after any sequence of Put, Delete and Rollback requests run one at
\* a time in which every new row gets a last_modified greater than every
\* earlier one, the current row of every non-empty chain is the row of the
\* chain with the greatest last_modified.
C20_CurrentRowIsNewest ==
    \A bucket \in BucketNames, key \in Keys :
        LET chain == {r \in rows : r.bucket_name = bucket /\ r.key = key}
        IN  chain # {}
              => /\ {r \in chain : r.is_latest} = Newest(chain)
                 /\ Cardinality(Newest(chain)) = 1

\* C20 witness: after three rows were created on one chain at three
\* different times, a Rollback to the second removed the third, and the
\* chain keeps two rows.
C20_Witness ==
    /\ last.op = "ui_rollback"
    /\ last.status = 200
    /\ nextVid = MaxVid + 1
    /\ now = MaxTime
    /\ \E r, o \in rows :
          /\ r.bucket_name = last.bucket /\ o.bucket_name = last.bucket
          /\ r.version_id = last.versionId
          /\ r.is_latest
          /\ o.last_modified < r.last_modified
          /\ r.last_modified < MaxTime

\* C21: after every request of a run of requests served one at a time,
\* every blob of the store is at the storage_path of exactly one row, so no
\* two rows share a blob and no blob is orphaned; a Put writes a file where
\* none was and leaves every other file as it is; and the blob of every row
\* that a Delete with version_id or a Rollback removes is gone from the
\* store.
C21_EveryBlobHasOneRow ==
    /\ [](\A path \in DOMAIN blobs :
            Cardinality({r \in rows : r.storage_path = path}) = 1)
    /\ [][(last'.op = "put_object" /\ last'.status = 200)
            => LET path == StoragePath(last'.bucket, last'.key, last'.version_id)
               IN  /\ path \notin DOMAIN blobs
                   /\ DOMAIN blobs' = DOMAIN blobs \cup {path}
                   /\ \A q \in DOMAIN blobs : blobs'[q] = blobs[q]]_vars
    /\ [][\A r \in rows :
            r.version_id \notin VidsOf(rows')
              => /\ last'.op \in {"delete_object", "ui_rollback"}
                 /\ r.storage_path \notin DOMAIN blobs']_vars

\* C21 witness: a Delete with version_id removed one of the three rows
\* created, and the two content rows left each have their blob, the only
\* blobs of the store.
C21_Witness ==
    /\ last.op = "delete_object"
    /\ last.versionId # NoVid
    /\ last.versionId < nextVid
    /\ nextVid = MaxVid + 1
    /\ last.versionId \notin VidsOf(rows)
    /\ Cardinality(rows) = MaxVid - 1
    /\ \A r \in rows : ~r.is_delete_marker
    /\ DOMAIN blobs = {r.storage_path : r \in rows}

====
